---- MODULE Spec2Model ----
(***************************************************************************)
(* gif2png (src/main.go): the frame compositor gifFrameToImage with its    *)
(* draw helper, and the orchestrating loop of main.                        *)
(*                                                                         *)
(* Rasters are one-dimensional: a rectangle is [Min, Max) on a line, which *)
(* keeps image.Rectangle's clipping and per-pixel source-over blending.    *)
(* Colours are premultiplied 8-bit (r, b, a) triples; GIF palettes carry   *)
(* only fully opaque entries and one fully transparent entry.              *)
(***************************************************************************)
EXTENDS Integers, Sequences, FiniteSets, TLC

VARIABLES
    pc,            \* position of main ("flags" .. "done", "fatal"), or "call"
    inputFile,     \* -input flag
    outputDir,     \* -output flag
    format,        \* -format flag
    quality,       \* -quality flag
    outputFormat,  \* OutputFormat decided from format
    gifImg,        \* the decoded animation: [Image, Disposal]
    i,             \* frame index handed to gifFrameToImage
    frameImg,      \* the raster gifFrameToImage returned, or NoImage
    composited,    \* frame indexes gifFrameToImage was called with, in order
    files,         \* output files created so far: set of <<index, ext>>
    log            \* lines printed so far: sequence of [kind, n]

vars == <<pc, inputFile, outputDir, format, quality, outputFormat,
          gifImg, i, frameImg, composited, files, log>>

-----------------------------------------------------------------------------
(* Bounds of the model *)

MaxFrames == 3

-----------------------------------------------------------------------------
(* Program constants *)

FormatPNG == 0
FormatJPG == 1

disposalNone == 1
disposalBackground == 2
disposalPrevious == 3

-----------------------------------------------------------------------------
(* Colours, palettes, rectangles *)

Transparent == [r |-> 0, b |-> 0, a |-> 0]
Red == [r |-> 255, b |-> 0, a |-> 255]
Blue == [r |-> 0, b |-> 255, a |-> 255]

\* palette of every frame: 0 red, 1 blue, 2 the transparent index
Palette == <<Red, Blue, Transparent>>
PaletteIndex == 0..2

ColorOf(idx) == Palette[idx + 1]

\* the disposal byte of a frame as the decoder stores it (0..7 in the format;
\* 0, 1 and 4 stand for the codes the switch does not single out)
DisposalCodes == 0..4

\* frame rectangles the decoder hands over
FrameRects == {[Min |-> 0, Max |-> 1]}

Points(rect) == rect.Min..(rect.Max - 1)

InRect(p, rect) == rect.Min <= p /\ p < rect.Max

\* image.Paletted values with the given rectangle
PalettedImages(rect) == {[Rect |-> rect, Pix |-> f] : f \in [Points(rect) -> PaletteIndex]}

Frames == UNION {PalettedImages(rect) : rect \in FrameRects}

\* the sequences over S of length n, and of length at most n
SeqsOfLen(S, n) == [1..n -> S]

\* gif.GIF values with n frames and m disposal entries
Animations(n, m) == [Image : SeqsOfLen(Frames, n), Disposal : SeqsOfLen(DisposalCodes, m)]

NumFrames(gif) == Len(gif.Image)

ImageAt(gif, k) == gif.Image[k + 1]

-----------------------------------------------------------------------------
(* image/draw *)

\* source-over of one premultiplied pixel s onto d
Over(s, d) ==
    [r |-> s.r + (d.r * (255 - s.a)) \div 255,
     b |-> s.b + (d.b * (255 - s.a)) \div 255,
     a |-> s.a + (d.a * (255 - s.a)) \div 255]

NewRGBA(bounds) == [Rect |-> bounds, Pix |-> [p \in Points(bounds) |-> Transparent]]

\* draw.Draw(dst, bounds, image.Transparent, image.Point{}, draw.Src)
ClearRGBA(dst, bounds) ==
    [dst EXCEPT !.Pix = [p \in DOMAIN dst.Pix |->
        IF InRect(p, bounds) THEN Transparent ELSE dst.Pix[p]]]

\* draw.Draw(dst, bounds, src, bounds.Min, draw.Over) with src an image.RGBA
DrawOverRGBA(dst, bounds, src) ==
    [dst EXCEPT !.Pix = [p \in DOMAIN dst.Pix |->
        IF InRect(p, bounds) /\ InRect(p, src.Rect)
        THEN Over(src.Pix[p], dst.Pix[p])
        ELSE dst.Pix[p]]]

drawFrame(dst, src, bounds) ==
    [dst EXCEPT !.Pix = [p \in DOMAIN dst.Pix |->
        IF InRect(p, bounds) /\ InRect(p, src.Rect)
        THEN Over(ColorOf(src.Pix[p]), dst.Pix[p])
        ELSE dst.Pix[p]]]

-----------------------------------------------------------------------------
(* gifFrameToImage *)

\* the disposal of frame k as the loop reads it
DisposalAt(gif, k) ==
    IF k < Len(gif.Disposal) THEN gif.Disposal[k + 1] ELSE 0

\* LoopBody whose switch has no default case: a frame with an unlisted code is not drawn
LoopBody_noDefault(img, gif, k, bounds) ==
    LET disposal == DisposalAt(gif, k)
    IN  CASE disposal = disposalNone ->
                drawFrame(img, ImageAt(gif, k), bounds)
          [] disposal = disposalBackground ->
                drawFrame(ClearRGBA(img, bounds), ImageAt(gif, k), bounds)
          [] disposal = disposalPrevious ->
                IF k > 0
                THEN LET temp == DrawOverRGBA(NewRGBA(bounds), bounds, img)
                         drawn == drawFrame(img, ImageAt(gif, k), bounds)
                     IN  DrawOverRGBA(drawn, bounds, temp)
                ELSE drawFrame(img, ImageAt(gif, k), bounds)
          [] OTHER ->
                img

\* LoopBody that restores the saved canvas by copying it (draw.Src) instead of draw.Over
LoopBody_hardRestore(img, gif, k, bounds) ==
    LET disposal == DisposalAt(gif, k)
    IN  CASE disposal = disposalNone ->
                drawFrame(img, ImageAt(gif, k), bounds)
          [] disposal = disposalBackground ->
                drawFrame(ClearRGBA(img, bounds), ImageAt(gif, k), bounds)
          [] disposal = disposalPrevious ->
                IF k > 0
                THEN DrawOverRGBA(NewRGBA(bounds), bounds, img)
                ELSE drawFrame(img, ImageAt(gif, k), bounds)
          [] OTHER ->
                drawFrame(img, ImageAt(gif, k), bounds)

\* one iteration of the loop over the frames 0..frame
LoopBody(img, gif, k, bounds) ==
    LET disposal == DisposalAt(gif, k)
    IN  CASE disposal = disposalNone ->
                drawFrame(img, ImageAt(gif, k), bounds)
          [] disposal = disposalBackground ->
                drawFrame(ClearRGBA(img, bounds), ImageAt(gif, k), bounds)
          [] disposal = disposalPrevious ->
                IF k > 0
                THEN LET temp == DrawOverRGBA(NewRGBA(bounds), bounds, img)
                         drawn == drawFrame(img, ImageAt(gif, k), bounds)
                     IN  DrawOverRGBA(drawn, bounds, temp)
                ELSE drawFrame(img, ImageAt(gif, k), bounds)
          [] OTHER ->
                drawFrame(img, ImageAt(gif, k), bounds)

\* the canvas after the iterations 0..k of the loop for target frame
RECURSIVE CanvasAfter(_, _, _)
CanvasAfter(gif, frame, k) ==
    LET bounds == ImageAt(gif, frame).Rect
    IN  IF k < 0 THEN NewRGBA(bounds)
        ELSE LoopBody(CanvasAfter(gif, frame, k - 1), gif, k, bounds)

\* gifFrameToImage whose loop runs over every frame of the animation
gifFrameToImage_allFrames(gif, frame) ==
    LET bounds == ImageAt(gif, frame).Rect
    IN  IF frame = 0
        THEN drawFrame(NewRGBA(bounds), ImageAt(gif, frame), bounds)
        ELSE CanvasAfter(gif, frame, NumFrames(gif) - 1)

\* gifFrameToImage whose loop stops one frame early (i < frame)
gifFrameToImage_offByOne(gif, frame) ==
    LET bounds == ImageAt(gif, frame).Rect
    IN  IF frame = 0
        THEN drawFrame(NewRGBA(bounds), ImageAt(gif, frame), bounds)
        ELSE CanvasAfter(gif, frame, frame - 1)

gifFrameToImage(gif, frame) ==
    LET bounds == ImageAt(gif, frame).Rect
    IN  IF frame = 0
        THEN drawFrame(NewRGBA(bounds), ImageAt(gif, frame), bounds)
        ELSE CanvasAfter(gif, frame, frame)

-----------------------------------------------------------------------------
(* The compositor called on its own: the animation grows frame by frame,   *)
(* and gifFrameToImage is called with any valid target index               *)

NoImage == [Rect |-> [Min |-> 0, Max |-> 0], Pix |-> <<>>]

Init ==
    /\ pc = "call"
    /\ inputFile = ""
    /\ outputDir = ""
    /\ format = "png"
    /\ quality = 90
    /\ outputFormat = FormatPNG
    /\ \E m \in 0..1 : gifImg \in Animations(1, m)
    /\ i = 0
    /\ frameImg = NoImage
    /\ composited = <<>>
    /\ files = {}
    /\ log = <<>>

\* frameImg := gifFrameToImage(gifImg, k) for a valid index k
Composite(k) ==
    /\ pc = "call"
    /\ k \in 0..(NumFrames(gifImg) - 1)
    /\ i' = k
    /\ frameImg' = gifFrameToImage(gifImg, k)
    /\ composited' = <<k>>
    /\ UNCHANGED <<pc, inputFile, outputDir, format, quality, outputFormat, gifImg, files, log>>

\* the same animation with one more frame after the last one; the new frame's
\* disposal entry, if the decoder gives one, sits at the new frame's index.
\* The raster of an earlier call is dropped.
AppendFrame(f, d, withDisposal) ==
    /\ pc = "call"
    /\ NumFrames(gifImg) < MaxFrames
    /\ withDisposal => Len(gifImg.Disposal) = NumFrames(gifImg)
    /\ gifImg' = [Image |-> Append(gifImg.Image, f),
                  Disposal |-> IF withDisposal THEN Append(gifImg.Disposal, d)
                               ELSE gifImg.Disposal]
    /\ i' = 0
    /\ frameImg' = NoImage
    /\ composited' = <<>>
    /\ UNCHANGED <<pc, inputFile, outputDir, format, quality, outputFormat, files, log>>

Next ==
    \/ \E k \in 0..(MaxFrames - 1) : Composite(k)
    \/ \E f \in Frames, d \in DisposalCodes, w \in BOOLEAN : AppendFrame(f, d, w)

Spec == Init /\ [][Next]_vars

-----------------------------------------------------------------------------
(* main *)

ValidFormats == {"png", "jpg", "jpeg"}

\* what gif.DecodeAll hands over: at least one frame, one disposal per frame
DecodedGifs ==
    UNION {{[Image |-> [k \in 1..n |-> f], Disposal |-> [k \in 1..n |-> d]] :
                f \in Frames, d \in {disposalNone, disposalBackground}} : n \in 1..MaxFrames}

NoGif == [Image |-> <<>>, Disposal |-> <<>>]

Line(kind, n) == [kind |-> kind, n |-> n]

Fatal(kind) ==
    /\ pc' = "fatal"
    /\ log' = Append(log, Line(kind, 0))

Ext == IF outputFormat = FormatJPG THEN ".jpg" ELSE ".png"

InitMain ==
    /\ pc = "flags"
    /\ inputFile \in {"", "a.gif"}
    /\ outputDir \in {"", "out"}
    /\ format \in {"png", "jpg", "jpeg", "bmp"}
    /\ quality \in {0, 1, 100, 101}
    /\ outputFormat = FormatPNG
    /\ gifImg = NoGif
    /\ i = 0
    /\ frameImg = NoImage
    /\ composited = <<>>
    /\ files = {}
    /\ log = <<>>

\* the required flags: usage and return when one is missing
CheckFlags ==
    /\ pc = "flags"
    /\ IF inputFile = "" \/ outputDir = ""
       THEN /\ pc' = "done"
            /\ log' = Append(log, Line("usage", 0))
       ELSE /\ pc' = "format"
            /\ UNCHANGED log
    /\ UNCHANGED <<inputFile, outputDir, format, quality, outputFormat, gifImg, i,
                   frameImg, composited, files>>

\* CheckFormat whose default case falls back to PNG
CheckFormat_fallback ==
    /\ pc = "format"
    /\ IF format \in {"jpg", "jpeg"}
       THEN outputFormat' = FormatJPG
       ELSE outputFormat' = FormatPNG
    /\ pc' = "quality"
    /\ UNCHANGED <<inputFile, outputDir, format, quality, gifImg, i, frameImg,
                   composited, files, log>>

CheckFormat ==
    /\ pc = "format"
    /\ IF format \in {"jpg", "jpeg"}
       THEN /\ outputFormat' = FormatJPG
            /\ pc' = "quality"
            /\ UNCHANGED log
       ELSE IF format = "png"
       THEN /\ outputFormat' = FormatPNG
            /\ pc' = "quality"
            /\ UNCHANGED log
       ELSE /\ Fatal("Unsupported format")
            /\ UNCHANGED outputFormat
    /\ UNCHANGED <<inputFile, outputDir, format, quality, gifImg, i, frameImg,
                   composited, files>>

CheckQuality ==
    /\ pc = "quality"
    /\ IF outputFormat = FormatJPG /\ (quality < 1 \/ quality > 100)
       THEN Fatal("Quality must be between 1 and 100")
       ELSE /\ pc' = "open"
            /\ UNCHANGED log
    /\ UNCHANGED <<inputFile, outputDir, format, quality, outputFormat, gifImg, i,
                   frameImg, composited, files>>

\* os.Open succeeds or fails
OpenFile(ok) ==
    /\ pc = "open"
    /\ IF ok
       THEN /\ pc' = "decode"
            /\ UNCHANGED log
       ELSE Fatal("Error opening GIF file")
    /\ UNCHANGED <<inputFile, outputDir, format, quality, outputFormat, gifImg, i,
                   frameImg, composited, files>>

\* gif.DecodeAll fails, or hands over an animation
DecodeFail ==
    /\ pc = "decode"
    /\ Fatal("Error decoding GIF")
    /\ UNCHANGED <<inputFile, outputDir, format, quality, outputFormat, gifImg, i,
                   frameImg, composited, files>>

Decode(g) ==
    /\ pc = "decode"
    /\ gifImg' = g
    /\ pc' = "mkdir"
    /\ UNCHANGED <<inputFile, outputDir, format, quality, outputFormat, i,
                   frameImg, composited, files, log>>

\* os.MkdirAll succeeds or fails
MakeDir(ok) ==
    /\ pc = "mkdir"
    /\ IF ok
       THEN /\ pc' = "loop"
            /\ i' = 0
            /\ UNCHANGED log
       ELSE /\ Fatal("Error creating output directory")
            /\ UNCHANGED i
    /\ UNCHANGED <<inputFile, outputDir, format, quality, outputFormat, gifImg,
                   frameImg, composited, files>>

\* the loop's test passed: frameImg := gifFrameToImage(gifImg, i)
ComposeFrame ==
    /\ pc = "loop"
    /\ i < NumFrames(gifImg)
    /\ frameImg' = gifFrameToImage(gifImg, i)
    /\ composited' = Append(composited, i)
    /\ pc' = "create"
    /\ UNCHANGED <<inputFile, outputDir, format, quality, outputFormat, gifImg, i,
                   files, log>>

\* CreateFile that treats a failed os.Create as fatal
CreateFile_abort(ok) ==
    /\ pc = "create"
    /\ IF ok
       THEN /\ files' = files \cup {<<i, Ext>>}
            /\ pc' = "encode"
            /\ UNCHANGED <<i, log>>
       ELSE /\ Fatal("Error creating output file")
            /\ UNCHANGED <<i, files>>
    /\ UNCHANGED <<inputFile, outputDir, format, quality, outputFormat, gifImg,
                   frameImg, composited>>

\* os.Create succeeds, or fails: log and continue
CreateFile(ok) ==
    /\ pc = "create"
    /\ IF ok
       THEN /\ files' = files \cup {<<i, Ext>>}
            /\ pc' = "encode"
            /\ UNCHANGED <<i, log>>
       ELSE /\ log' = Append(log, Line("Error creating output file", i))
            /\ i' = i + 1
            /\ pc' = "loop"
            /\ UNCHANGED files
    /\ UNCHANGED <<inputFile, outputDir, format, quality, outputFormat, gifImg,
                   frameImg, composited>>

\* png.Encode or jpeg.Encode succeeds, or fails: log and continue
EncodeFrame(ok) ==
    /\ pc = "encode"
    /\ log' = Append(log, IF ok THEN Line("Saved frame", i)
                               ELSE Line("Error encoding frame", i))
    /\ i' = i + 1
    /\ pc' = "loop"
    /\ UNCHANGED <<inputFile, outputDir, format, quality, outputFormat, gifImg,
                   frameImg, composited, files>>

\* the files saved so far
SavedLines == {k \in 1..Len(log) : log[k].kind = "Saved frame"}

\* Summary that reports the number of frames saved
Summary_savedCount ==
    /\ pc = "loop"
    /\ ~(i < NumFrames(gifImg))
    /\ log' = Append(log, Line("Successfully converted", Cardinality(SavedLines)))
    /\ pc' = "done"
    /\ UNCHANGED <<inputFile, outputDir, format, quality, outputFormat, gifImg, i,
                   frameImg, composited, files>>

\* the loop's test failed: the summary line, and main returns
Summary ==
    /\ pc = "loop"
    /\ ~(i < NumFrames(gifImg))
    /\ log' = Append(log, Line("Successfully converted", NumFrames(gifImg)))
    /\ pc' = "done"
    /\ UNCHANGED <<inputFile, outputDir, format, quality, outputFormat, gifImg, i,
                   frameImg, composited, files>>

NextMain ==
    \/ CheckFlags
    \/ CheckFormat
    \/ CheckQuality
    \/ \E ok \in BOOLEAN : OpenFile(ok)
    \/ DecodeFail
    \/ \E g \in DecodedGifs : Decode(g)
    \/ \E ok \in BOOLEAN : MakeDir(ok)
    \/ ComposeFrame
    \/ \E ok \in BOOLEAN : CreateFile(ok)
    \/ \E ok \in BOOLEAN : EncodeFrame(ok)
    \/ Summary

\* main is one sequential thread: each step it can take, it takes
SpecMain == InitMain /\ [][NextMain]_vars /\ WF_vars(NextMain)

-----------------------------------------------------------------------------
(* Properties of the compositor (Spec) *)

\* gifFrameToImage has returned frameImg for (gifImg, i)
Called == pc = "call" /\ composited = <<i>>

Opaque(c) == c.a = 255

SameBounds(gif) ==
    \A j, k \in 0..(NumFrames(gif) - 1) : ImageAt(gif, j).Rect = ImageAt(gif, k).Rect

OpaqueFrame(f) == \A p \in Points(f.Rect) : Opaque(ColorOf(f.Pix[p]))

\* a frame drawn alone onto an empty transparent canvas of its own bounds
DrawnAlone(f) == drawFrame(NewRGBA(f.Rect), f, f.Rect)

\* the canvas of a player just before it draws frame k: the disposal of frame
\* k - 1 is applied after frame k - 1 was shown
RECURSIVE PlayerBefore(_, _, _)
PlayerBefore(gif, k, bounds) ==
    IF k = 0 THEN NewRGBA(bounds)
    ELSE LET pre == PlayerBefore(gif, k - 1, bounds)
             shown == drawFrame(pre, ImageAt(gif, k - 1), bounds)
             d == DisposalAt(gif, k - 1)
         IN  IF d = disposalBackground THEN ClearRGBA(shown, bounds)
             ELSE IF d = disposalPrevious THEN pre
             ELSE shown

\* what the player shows at frame k
PlayerShows(gif, k) ==
    LET bounds == ImageAt(gif, k).Rect
    IN  drawFrame(PlayerBefore(gif, k, bounds), ImageAt(gif, k), bounds)

\* C1: for an animation whose frames share their bounds, the raster returned
\* for frame k is what a player shows at frame k, the player applying the
\* disposal of each frame after showing it and before drawing the next.
C1_MatchesPlayer ==
    (Called /\ SameBounds(gifImg)) => frameImg = PlayerShows(gifImg, i)

\* C2: two frames of equal bounds, frame 0 opaque with RestoreBackground: the
\* raster for index 1 is frame 1 drawn alone on an empty canvas.
C2_RestoreBackground ==
    (/\ Called
     /\ NumFrames(gifImg) = 2
     /\ i = 1
     /\ SameBounds(gifImg)
     /\ OpaqueFrame(ImageAt(gifImg, 0))
     /\ DisposalAt(gifImg, 0) = disposalBackground)
    => frameImg = DrawnAlone(ImageAt(gifImg, 1))

\* C3: three frames of equal bounds with disposals None, RestorePrevious,
\* None: where frame 2 is transparent, the raster for index 2 has the pixel of
\* frame 0 drawn alone.
C3_RestorePrevious ==
    (/\ Called
     /\ NumFrames(gifImg) = 3
     /\ i = 2
     /\ SameBounds(gifImg)
     /\ gifImg.Disposal = <<disposalNone, disposalPrevious, disposalNone>>)
    => \A p \in Points(frameImg.Rect) :
          ~Opaque(ColorOf(ImageAt(gifImg, 2).Pix[p]))
              => frameImg.Pix[p] = DrawnAlone(ImageAt(gifImg, 0)).Pix[p]

\* C4: appending frames (with their disposal entries) after the last frame
\* changes the raster of no index the animation already had.
C4_PrefixIndependence ==
    [][NumFrames(gifImg') > NumFrames(gifImg)
        => \A k \in 0..(NumFrames(gifImg) - 1) :
              gifFrameToImage(gifImg', k) = gifFrameToImage(gifImg, k)]_vars

\* a raster for a frame that is not the last one, differing from the last frame alone
C4_Witness ==
    /\ Called
    /\ i + 1 < NumFrames(gifImg)
    /\ frameImg # DrawnAlone(ImageAt(gifImg, NumFrames(gifImg) - 1))

\* the 1x1 sequence red, blue, red with disposals None, RestoreBackground, None
RedBlueRed ==
    [Image |-> << [Rect |-> [Min |-> 0, Max |-> 1], Pix |-> [p \in 0..0 |-> 0]],
                  [Rect |-> [Min |-> 0, Max |-> 1], Pix |-> [p \in 0..0 |-> 1]],
                  [Rect |-> [Min |-> 0, Max |-> 1], Pix |-> [p \in 0..0 |-> 0]] >>,
     Disposal |-> <<disposalNone, disposalBackground, disposalNone>>]

\* C5: opaque frames of equal bounds whose disposal codes are None or
\* RestoreBackground: the raster for frame k is frame k drawn alone; red, blue,
\* red with None, RestoreBackground, None gives red, blue, red.
C5_OpaqueOverwrite ==
    /\ (/\ Called
        /\ SameBounds(gifImg)
        /\ \A k \in 0..(NumFrames(gifImg) - 1) : OpaqueFrame(ImageAt(gifImg, k))
        /\ \A k \in 1..Len(gifImg.Disposal) :
              gifImg.Disposal[k] \in {disposalNone, disposalBackground})
       => frameImg = DrawnAlone(ImageAt(gifImg, i))
    /\ (Called /\ gifImg = RedBlueRed)
       => frameImg.Pix[0] = <<Red, Blue, Red>>[i + 1]

\* blue at index 1 of red, blue, red: the red of frame 0 is overwritten
C5_Witness ==
    /\ Called
    /\ gifImg = RedBlueRed
    /\ i = 1
    /\ frameImg.Pix[0] = Blue

\* the animation with every missing or unlisted disposal written as None
AsNone(gif) ==
    [gif EXCEPT !.Disposal = [k \in 1..NumFrames(gif) |->
        IF DisposalAt(gif, k - 1) \in {disposalBackground, disposalPrevious}
        THEN DisposalAt(gif, k - 1)
        ELSE disposalNone]]

\* C6: a frame whose disposal entry is missing or is neither RestoreBackground
\* nor RestorePrevious is composited as if its disposal were None, and the
\* call returns a raster of the target frame's bounds.
C6_DefaultDisposal ==
    Called =>
        /\ frameImg.Rect = ImageAt(gifImg, i).Rect
        /\ DOMAIN frameImg.Pix = Points(frameImg.Rect)
        /\ frameImg = gifFrameToImage(AsNone(gifImg), i)

\* a call past a missing entry and an unlisted code, with a transparent target
\* frame through which the earlier frame shows
C6_Witness ==
    /\ Called
    /\ i = 2
    /\ Len(gifImg.Disposal) = 2
    /\ gifImg.Disposal[2] \notin {disposalNone, disposalBackground, disposalPrevious}
    /\ ~OpaqueFrame(ImageAt(gifImg, 2))
    /\ frameImg = DrawnAlone(ImageAt(gifImg, 1))
    /\ frameImg # DrawnAlone(ImageAt(gifImg, 2))

\* the canvas after iteration k of the loop for target i; after the last
\* iteration it is the raster returned
CanvasAt(k) == IF k = i THEN frameImg ELSE CanvasAfter(gifImg, i, k)

-----------------------------------------------------------------------------
(* Properties of main (SpecMain) *)

FatalKinds ==
    {"Unsupported format", "Quality must be between 1 and 100", "Error opening GIF file",
     "Error decoding GIF", "Error creating output directory"}

FrameKinds == {"Saved frame", "Error creating output file", "Error encoding frame"}

IsFrameLine(l) == l.kind \in FrameKinds

\* the per-frame lines printed so far, in order
FrameLines == SelectSeq(log, IsFrameLine)

\* setup succeeded and the loop is about to test i = 0
LoopStart == pc = "loop" /\ i = 0 /\ composited = <<>>

\* main returned after the loop: every index composited once in increasing
\* order, one line per frame in that order, then the summary
LoopCompleted ==
    /\ pc = "done"
    /\ composited = [k \in 1..NumFrames(gifImg) |-> k - 1]
    /\ Len(FrameLines) = NumFrames(gifImg)
    /\ \A k \in 1..Len(FrameLines) : FrameLines[k].n = k - 1
    /\ \A k \in 1..Len(log) : log[k].kind \notin FatalKinds
    /\ \A k \in 0..(NumFrames(gifImg) - 1) :
          Line("Saved frame", k) \in {log[j] : j \in 1..Len(log)}
              => \E e \in {".png", ".jpg"} : <<k, e>> \in files
    /\ log[Len(log)].kind = "Successfully converted"

\* C7: once setup has succeeded the loop attempts every frame index once, in
\* increasing order, and reaches its end: a frame whose file cannot be created
\* or encoded leaves an error line and no saved line, and the next frame follows.
C7_LoopCompletes == LoopStart ~> LoopCompleted

\* a completed run whose frame 0 could not be created, whose frame 1 could not
\* be encoded and whose frame 2 was saved
C7_Witness ==
    /\ LoopCompleted
    /\ FrameLines = << Line("Error creating output file", 0),
                       Line("Error encoding frame", 1),
                       Line("Saved frame", 2) >>

\* no frame was composited, no output file created, the loop not entered
NothingProcessed ==
    /\ composited = <<>>
    /\ files = {}
    /\ frameImg = NoImage
    /\ pc \notin {"loop", "create", "encode"}

\* C8 as stated: a fatal error, an invalid format or a quality outside 1..100
\* (whatever the format) stops the run before any frame is composited and
\* before any output file is created.
C8_AnyFormatQuality ==
    (pc = "fatal" \/ format \notin ValidFormats \/ quality < 1 \/ quality > 100)
        => NothingProcessed

\* C8: a fatal error, an invalid format, or a quality outside 1..100 with the
\* JPEG format selected stops the run before any frame is composited and
\* before any output file is created.
C8_FatalBeforeFrames ==
    (\/ pc = "fatal"
     \/ format \notin ValidFormats
     \/ (format \in {"jpg", "jpeg"} /\ (quality < 1 \/ quality > 100)))
        => NothingProcessed

\* the run aborted on the quality of a JPEG run
C8_Witness ==
    /\ pc = "fatal"
    /\ format = "jpeg"
    /\ quality = 101
    /\ log = <<Line("Quality must be between 1 and 100", 0)>>

\* C10: on a run that reached the loop and returned, the summary line reports
\* the number of frames of the animation, whatever was saved.
C10_SummaryCountsFrames ==
    (pc = "done" /\ gifImg # NoGif) =>
        /\ log[Len(log)] = Line("Successfully converted", NumFrames(gifImg))
        /\ Cardinality({k \in 1..Len(log) : log[k].kind = "Successfully converted"}) = 1

\* a summary of three files after a run that saved none
C10_Witness ==
    /\ pc = "done"
    /\ log[Len(log)] = Line("Successfully converted", 3)
    /\ SavedLines = {}
    /\ Len(FrameLines) = 3

====
